---- MODULE Spec2Model ----
(***************************************************************************)
(* A model of dataclass_io.reader.DataclassReader: header detection,       *)
(* schema binding, row decoding and the lifecycle of the underlying        *)
(* stream.  Text is modelled at character level: a line is a sequence of   *)
(* one-character strings, a file is a sequence of lines, each of which is  *)
(* terminated by a newline in the stream.                                  *)
(***************************************************************************)
EXTENDS Integers, Sequences, FiniteSets, TLC

VARIABLES file, dataclass_type, pc, fin_open, pos, header, open_error,
          last, rows, releases, exhausted, exit_exc

vars == <<file, dataclass_type, pc, fin_open, pos, header, open_error,
          last, rows, releases, exhausted, exit_exc>>

----------------------------------------------------------------------------
(* Characters *)

TAB == "\t"
NL == "\n"
QUOTE == "\""

\* the default cell separator
delimiter == TAB

\* the default preface-line marker
header_comment_char == "#"

\* the characters str.strip() and int() treat as whitespace
Whitespace == {TAB, NL, " "}

Digits == {"1"}

\* Bounds of the input space
MaxLines == 3

\* The lines a file is made of, without their terminator.
Lines ==
  { <<>>,                                          \* blank line
    <<"#">>,                                       \* comment
    <<"#", TAB>>,                                  \* comment, trailing whitespace
    <<TAB>>,                                       \* only whitespace / two empty cells
    <<"f", TAB, "b">>,                             \* fieldnames f, b / bad int cell
    <<"b", TAB, "f">>,                             \* fieldnames in the other order
    <<"f">>,                                       \* one fieldname / one cell
    <<"f", TAB, "b", TAB>>,                        \* trailing delimiter / a cell too many
    <<QUOTE, "f", QUOTE, TAB, QUOTE, "b", QUOTE>>, \* quoted fieldnames / quoted cells
    <<"f", TAB, "1">>,                             \* data row
    <<"b", TAB, "1">>,                             \* another data row
    <<QUOTE, "f", TAB, "1">> }                     \* quote left open

Files == UNION { [1..n -> Lines] : n \in 0..MaxLines }

\* fields(dataclass_type): the ordered (name, type) pairs of the record type
Types ==
  { << [name |-> <<"f">>, type |-> "str"], [name |-> <<"b">>, type |-> "int"] >>,
    << [name |-> <<"f">>, type |-> "str"], [name |-> <<"b">>, type |-> "str"] >>,
    << [name |-> <<"f">>, type |-> "str"] >> }

----------------------------------------------------------------------------
(* str methods *)

RECURSIVE lstrip(_)
lstrip(s) ==
  IF s # <<>> /\ Head(s) \in Whitespace THEN lstrip(Tail(s)) ELSE s

RECURSIVE rstrip(_)
rstrip(s) ==
  IF s # <<>> /\ s[Len(s)] \in Whitespace
  THEN rstrip(SubSeq(s, 1, Len(s) - 1)) ELSE s

\* str.strip(): removes leading and trailing whitespace
strip(s) == rstrip(lstrip(s))

\* str.startswith(c) for a one-character prefix
startswith(s, c) == s # <<>> /\ Head(s) = c

\* str.split(sep): the tokens between the occurrences of sep, at least one
RECURSIVE split(_, _)
split(s, sep) ==
  IF \E i \in 1..Len(s) : s[i] = sep
  THEN LET i == CHOOSE j \in 1..Len(s) :
                  s[j] = sep /\ \A k \in 1..(j - 1) : s[k] # sep
       IN <<SubSeq(s, 1, i - 1)>> \o split(SubSeq(s, i + 1, Len(s)), sep)
  ELSE <<s>>

\* a line as the stream delivers it: with its terminator
raw(line) == line \o <<NL>>

----------------------------------------------------------------------------
(* Header parsing *)

NoHeader == [isNone |-> TRUE, preface |-> <<>>, fieldnames |-> <<>>, consumed |-> 0]

FileHeader(preface, fieldnames, consumed) ==
  [isNone |-> FALSE, preface |-> preface, fieldnames |-> fieldnames,
   consumed |-> consumed]

\* variant: only comment lines count as preface
is_preface_line_comment_only(line) ==
  startswith(raw(line), header_comment_char)

is_preface_line(line) ==
  startswith(raw(line), header_comment_char) \/ strip(raw(line)) = <<>>

\* variant: blank lines are dropped from the preface instead of kept
RECURSIVE get_header_loop_drop_blank(_, _, _)
get_header_loop_drop_blank(lines, i, preface) ==
  IF i > Len(lines) THEN [NoHeader EXCEPT !.consumed = Len(lines)]
  ELSE IF is_preface_line(lines[i])
       THEN get_header_loop_drop_blank(lines, i + 1,
              IF strip(raw(lines[i])) = <<>> THEN preface
              ELSE Append(preface, strip(raw(lines[i]))))
       ELSE FileHeader(preface, split(strip(raw(lines[i])), delimiter), i)

\* the loop of _get_header over lines[i..], preface being what it has collected;
\* consumed is the number of lines the loop has taken from the stream
RECURSIVE get_header_loop(_, _, _)
get_header_loop(lines, i, preface) ==
  IF i > Len(lines) THEN [NoHeader EXCEPT !.consumed = Len(lines)]
  ELSE IF is_preface_line(lines[i])
       THEN get_header_loop(lines, i + 1, Append(preface, strip(raw(lines[i]))))
       ELSE FileHeader(preface, split(strip(raw(lines[i])), delimiter), i)

_get_header(lines) == get_header_loop(lines, 1, <<>>)

\* [f.name for f in fields(dataclass_type)]
field_names(type) == [i \in 1..Len(type) |-> type[i].name]

\* variant: the names are compared without regard to their order
schema_mismatch_unordered(fieldnames, type) ==
  {fieldnames[i] : i \in 1..Len(fieldnames)} # {type[i].name : i \in 1..Len(type)}

\* the comparison of the file's fieldnames with the record type's field names
schema_mismatch(fieldnames, type) == fieldnames # field_names(type)

----------------------------------------------------------------------------
(* csv.reader with delimiter = TAB, quotechar = '"', doublequote, not strict *)

EOL == "EOL"

parse_reset == [state |-> "START_RECORD", fields |-> <<>>, field |-> <<>>]

parse_save_field(p) == [p EXCEPT !.fields = Append(p.fields, p.field), !.field = <<>>]

parse_add_char(p, c) == [p EXCEPT !.field = Append(p.field, c)]

after_eol(c) == IF c = EOL THEN "START_RECORD" ELSE "EAT_CRNL"

parse_process_char(p, c) ==
  LET st == IF p.state = "START_RECORD" /\ c \notin {EOL, NL}
            THEN "START_FIELD" ELSE p.state
  IN CASE st = "START_RECORD" ->
            IF c = EOL THEN p ELSE [p EXCEPT !.state = "EAT_CRNL"]
       [] st = "START_FIELD" ->
            IF c \in {NL, EOL}
            THEN [parse_save_field(p) EXCEPT !.state = after_eol(c)]
            ELSE IF c = QUOTE THEN [p EXCEPT !.state = "IN_QUOTED_FIELD"]
            ELSE IF c = delimiter
            THEN [parse_save_field(p) EXCEPT !.state = "START_FIELD"]
            ELSE [parse_add_char(p, c) EXCEPT !.state = "IN_FIELD"]
       [] st = "IN_FIELD" ->
            IF c \in {NL, EOL}
            THEN [parse_save_field(p) EXCEPT !.state = after_eol(c)]
            ELSE IF c = delimiter
            THEN [parse_save_field(p) EXCEPT !.state = "START_FIELD"]
            ELSE parse_add_char(p, c)
       [] st = "IN_QUOTED_FIELD" ->
            IF c = EOL THEN p
            ELSE IF c = QUOTE THEN [p EXCEPT !.state = "QUOTE_IN_QUOTED_FIELD"]
            ELSE parse_add_char(p, c)
       [] st = "QUOTE_IN_QUOTED_FIELD" ->
            IF c = QUOTE
            THEN [parse_add_char(p, c) EXCEPT !.state = "IN_QUOTED_FIELD"]
            ELSE IF c = delimiter
            THEN [parse_save_field(p) EXCEPT !.state = "START_FIELD"]
            ELSE IF c \in {NL, EOL}
            THEN [parse_save_field(p) EXCEPT !.state = after_eol(c)]
            ELSE [parse_add_char(p, c) EXCEPT !.state = "IN_FIELD"]
       [] st = "EAT_CRNL" ->
            \* a line holds no character after its terminator
            IF c = EOL THEN [p EXCEPT !.state = "START_RECORD"] ELSE p

RECURSIVE parse_line(_, _)
parse_line(p, chars) ==
  IF chars = <<>> THEN p
  ELSE parse_line(parse_process_char(p, Head(chars)), Tail(chars))

\* Reader_iternext: one row from lines[at+1..]; stop is StopIteration
RECURSIVE csv_iternext(_, _, _)
csv_iternext(lines, at, p) ==
  IF at >= Len(lines)
  THEN IF p.field # <<>> \/ p.state = "IN_QUOTED_FIELD"
       THEN [stop |-> FALSE, row |-> parse_save_field(p).fields, at |-> at]
       ELSE [stop |-> TRUE, row |-> <<>>, at |-> at]
  ELSE LET q == parse_line(p, raw(lines[at + 1]) \o <<EOL>>)
       IN IF q.state = "START_RECORD"
          THEN [stop |-> FALSE, row |-> q.fields, at |-> at + 1]
          ELSE csv_iternext(lines, at + 1, q)

csv_next(lines, at) == csv_iternext(lines, at, parse_reset)

----------------------------------------------------------------------------
(* csv.DictReader with the fieldnames given *)

None == [isNone |-> TRUE, s |-> <<>>]

Cell(s) == [isNone |-> FALSE, s |-> s]

\* variant: the cells are bound to the fieldnames from the wrong end
row_dict_reversed(fieldnames, row) ==
  [cells |-> [i \in 1..Len(fieldnames) |->
                IF i <= Len(row) THEN Cell(row[Len(row) + 1 - i]) ELSE None],
   rest  |-> IF Len(row) > Len(fieldnames)
             THEN SubSeq(row, Len(fieldnames) + 1, Len(row)) ELSE <<>>]

\* the dict of one row: the cell of each fieldname (restval None where the
\* row is short) and, under restkey, the cells beyond the fieldnames
row_dict(fieldnames, row) ==
  [cells |-> [i \in 1..Len(fieldnames) |->
                IF i <= Len(row) THEN Cell(row[i]) ELSE None],
   rest  |-> IF Len(row) > Len(fieldnames)
             THEN SubSeq(row, Len(fieldnames) + 1, Len(row)) ELSE <<>>]

\* DictReader.__next__: skips the rows csv.reader returns empty
RECURSIVE DictReader_next(_, _, _)
DictReader_next(fieldnames, lines, at) ==
  LET r == csv_next(lines, at)
  IN IF r.stop THEN [stop |-> TRUE, d |-> row_dict(<<>>, <<>>), at |-> r.at]
     ELSE IF r.row = <<>> THEN DictReader_next(fieldnames, lines, r.at)
     ELSE [stop |-> FALSE, d |-> row_dict(fieldnames, r.row), at |-> r.at]

----------------------------------------------------------------------------
(* Row decoding *)

StrValue(s) == [t |-> "str", s |-> s, n |-> 0]

IntValue(n) == [t |-> "int", s |-> <<>>, n |-> n]

Raised(kind) == [ok |-> FALSE, err |-> kind, value |-> StrValue(<<>>)]

Returned(v) == [ok |-> TRUE, err |-> "none", value |-> v]

DigitValue(c) == IF c = "1" THEN 1 ELSE 0

RECURSIVE decimal(_)
decimal(s) ==
  IF s = <<>> THEN 0
  ELSE 10 * decimal(SubSeq(s, 1, Len(s) - 1)) + DigitValue(s[Len(s)])

\* str(x)
str(cell) ==
  IF cell.isNone THEN Returned(StrValue(<<"N", "o", "n", "e">>))
  ELSE Returned(StrValue(cell.s))

\* int(x): a TypeError for None, a ValueError for text that is not a number
int(cell) ==
  IF cell.isNone THEN Raised("TypeError")
  ELSE LET digits == strip(cell.s)
       IN IF digits # <<>> /\ \A i \in 1..Len(digits) : digits[i] \in Digits
          THEN Returned(IntValue(decimal(digits)))
          ELSE Raised("ValueError")

\* field.type(value)
coerce(type, cell) == IF type = "int" THEN int(cell) ELSE str(cell)

\* variant: a field whose coercion fails is left out and the record built anyway
RECURSIVE row_to_dataclass_loop_partial(_, _, _, _)
row_to_dataclass_loop_partial(type, d, i, values) ==
  IF i > Len(type) THEN [ok |-> TRUE, err |-> "none", record |-> values]
  ELSE LET c == coerce(type[i].type, d.cells[i])
       IN row_to_dataclass_loop_partial(type, d, i + 1,
            IF c.ok THEN Append(values, c.value) ELSE values)

\* the loop of _row_to_dataclass from field i on, values being the coerced
\* values of the fields before it
RECURSIVE row_to_dataclass_loop(_, _, _, _)
row_to_dataclass_loop(type, d, i, values) ==
  IF i > Len(type) THEN [ok |-> TRUE, err |-> "none", record |-> values]
  ELSE LET c == coerce(type[i].type, d.cells[i])
       IN IF c.ok
          THEN row_to_dataclass_loop(type, d, i + 1, Append(values, c.value))
          ELSE [ok |-> FALSE, err |-> c.err, record |-> <<>>]

_row_to_dataclass(type, d) == row_to_dataclass_loop(type, d, 1, <<>>)

----------------------------------------------------------------------------
(* The reader *)

\* What the caller saw of the last advance: its outcome (kind), where an
\* error came from (origin), the state of the reader it was made in (pc,
\* exhausted) and, when the row splitter delivered a row (read), the row's
\* cells by fieldname (cells) and its number of cells (ncells).
NoResult ==
  [kind |-> "none", origin |-> "none", pc |-> "none", exhausted |-> FALSE,
   read |-> FALSE, cells |-> <<>>, ncells |-> 0]

Result(kind, origin) ==
  [kind |-> kind, origin |-> origin, pc |-> pc, exhausted |-> exhausted,
   read |-> FALSE, cells |-> <<>>, ncells |-> 0]

RowResult(kind, origin, d) ==
  [Result(kind, origin) EXCEPT !.read = TRUE, !.cells = d.cells,
                               !.ncells = Len(d.cells) + Len(d.rest)]

Init ==
  /\ file \in Files
  /\ dataclass_type \in Types
  /\ pc = "unopened"
  /\ fin_open = FALSE
  /\ pos = 0
  /\ header = NoHeader
  /\ open_error = "none"
  /\ last = NoResult
  /\ rows = <<>>
  /\ releases = 0
  /\ exhausted = FALSE
  /\ exit_exc = "none"

\* DataclassReader(path, dataclass_type)
__init__ ==
  /\ pc = "unopened"
  /\ LET h == _get_header(file)
     IN /\ fin_open' = TRUE
        /\ header' = h
        /\ pos' = h.consumed
        /\ IF h.isNone
           THEN open_error' = "missing_header" /\ pc' = "open_failed"
           ELSE IF schema_mismatch(h.fieldnames, dataclass_type)
           THEN open_error' = "schema_mismatch" /\ pc' = "open_failed"
           ELSE open_error' = "none" /\ pc' = "opened"
  /\ UNCHANGED <<file, dataclass_type, last, rows, releases, exhausted, exit_exc>>

__enter__ ==
  /\ pc = "opened"
  /\ pc' = "entered"
  /\ UNCHANGED <<file, dataclass_type, fin_open, pos, header, open_error,
                 last, rows, releases, exhausted, exit_exc>>

\* variant: the stream is closed only when the block ends without an error
__exit__skip_on_error(exc_type) ==
  /\ pc = "entered"
  /\ pc' = "exited"
  /\ fin_open' = IF exc_type = "None" THEN FALSE ELSE fin_open
  /\ releases' = IF fin_open /\ exc_type = "None" THEN releases + 1 ELSE releases
  /\ exit_exc' = exc_type
  /\ UNCHANGED <<file, dataclass_type, pos, header, open_error,
                 last, rows, exhausted>>

\* variant: the stream is left open
__exit__no_close(exc_type) ==
  /\ pc = "entered"
  /\ pc' = "exited"
  /\ exit_exc' = exc_type
  /\ UNCHANGED <<file, dataclass_type, fin_open, releases, pos, header,
                 open_error, last, rows, exhausted>>

\* the with statement leaves the block: exc_type is "None" or the error
\* the last advance of the block raised
__exit__(exc_type) ==
  /\ pc = "entered"
  /\ pc' = "exited"
  /\ fin_open' = FALSE
  /\ releases' = IF fin_open THEN releases + 1 ELSE releases
  /\ exit_exc' = exc_type
  /\ UNCHANGED <<file, dataclass_type, pos, header, open_error,
                 last, rows, exhausted>>

\* next(reader)
__next__ ==
  /\ pc \in {"opened", "entered", "exited"}
  /\ IF ~fin_open
     THEN \* the stream refuses to be read
          /\ last' = Result("ValueError", "stream")
          /\ UNCHANGED <<pos, rows, exhausted>>
     ELSE LET r == DictReader_next(header.fieldnames, file, pos)
          IN /\ pos' = r.at
             /\ IF r.stop
                THEN /\ last' = Result("StopIteration", "stream")
                     /\ exhausted' = TRUE
                     /\ rows' = rows
                ELSE LET x == _row_to_dataclass(dataclass_type, r.d)
                     IN /\ exhausted' = exhausted
                        /\ IF x.ok
                           THEN /\ last' = RowResult("record", "none", r.d)
                                /\ rows' = Append(rows, x.record)
                           ELSE /\ last' = RowResult(x.err, "coercion", r.d)
                                /\ rows' = rows
  /\ UNCHANGED <<file, dataclass_type, pc, fin_open, header, open_error,
                 releases, exit_exc>>

\* the ways a with block is left
ExitScope ==
  \E exc_type \in {"None"} \cup
        (IF last.pc = "entered" /\ last.kind \in {"ValueError", "TypeError"}
         THEN {last.kind} ELSE {}) :
     __exit__(exc_type)

Next == __init__ \/ __enter__ \/ __next__ \/ ExitScope

Spec == Init /\ [][Next]_vars

----------------------------------------------------------------------------
(* The file layout, stated on the lines themselves *)

Blank(line) == \A i \in 1..Len(line) : line[i] \in Whitespace

CommentPrefixed(line) == line # <<>> /\ line[1] = header_comment_char

PrefaceLine(line) == Blank(line) \/ CommentPrefixed(line)

\* the index of the fieldname row: the first line that is neither blank nor
\* comment-prefixed; 0 when there is none
FieldnameRow(f) ==
  IF \E i \in 1..Len(f) : ~PrefaceLine(f[i])
  THEN CHOOSE i \in 1..Len(f) :
         ~PrefaceLine(f[i]) /\ \A j \in 1..(i - 1) : PrefaceLine(f[j])
  ELSE 0

Tokens(line) == split(line, delimiter)

Chars(line) == {line[i] : i \in 1..Len(line)}

Opened == pc \in {"opened", "entered", "exited"}

\* a data row of a well-formed file: not empty, unquoted, one cell per field,
\* every cell acceptable to its field's coercion function
WellFormedRow(type, line) ==
  /\ line # <<>>
  /\ QUOTE \notin Chars(line)
  /\ Len(Tokens(line)) = Len(type)
  /\ \A i \in 1..Len(type) : coerce(type[i].type, Cell(Tokens(line)[i])).ok

WellFormed(f, type) ==
  /\ FieldnameRow(f) # 0
  /\ Tokens(f[FieldnameRow(f)]) = field_names(type)
  /\ \A i \in (FieldnameRow(f) + 1)..Len(f) : WellFormedRow(type, f[i])

ExpectedRecord(type, line) ==
  [i \in 1..Len(type) |-> coerce(type[i].type, Cell(Tokens(line)[i])).value]

\* C1: for a well-formed file whose fieldname row equals the field names of
\* the record type, open succeeds, the records yielded so far are the decoded
\* data rows after the fieldname row in file order, no advance fails, and at
\* exhaustion there is exactly one record per data row.
C1_WellFormedFileYieldsItsRows ==
  (pc # "unopened" /\ WellFormed(file, dataclass_type)) =>
      LET h == FieldnameRow(file)
      IN /\ Opened
         /\ open_error = "none"
         /\ Len(rows) <= Len(file) - h
         /\ \A i \in 1..Len(rows) :
              rows[i] = ExpectedRecord(dataclass_type, file[h + i])
         /\ last.kind \in {"none", "record", "StopIteration"} \/ ~fin_open
         /\ exhausted => Len(rows) = Len(file) - h

C1_Witness ==
  /\ WellFormed(file, dataclass_type)
  /\ exhausted
  /\ dataclass_type[Len(dataclass_type)].type = "int"
  /\ Len(rows) = 2
  /\ rows[1] # rows[2]

QuotedFieldnames == <<QUOTE, "f", QUOTE, TAB, QUOTE, "b", QUOTE>>

\* C2: a file whose fieldname row is "f"<TAB>"b", every token in double
\* quotes, opens without a schema-mismatch error against a record type with
\* the fields f and b.
C2_QuotedHeaderBinds ==
  ( /\ pc # "unopened"
    /\ Len(file) >= 1
    /\ file[1] = QuotedFieldnames
    /\ field_names(dataclass_type) = << <<"f">>, <<"b">> >> )
  => (Opened /\ open_error = "none")

\* no data row was read or yielded: the stream stands right after the
\* fieldname row and no advance was made
NothingRead ==
  /\ pos = FieldnameRow(file)
  /\ rows = <<>>
  /\ last.kind = "none"

C4_NoHeaderFailsOpen ==
  (pc # "unopened" /\ \A i \in 1..Len(file) : PrefaceLine(file[i]))
  => (header.isNone /\ pc = "open_failed" /\ open_error = "missing_header")

C4_Witness ==
  /\ pc = "open_failed"
  /\ open_error = "missing_header"
  /\ \E i, j \in 1..Len(file) : Blank(file[i]) /\ CommentPrefixed(file[j])

\* C5: a reader that was opened holds its stream open until the scope is
\* left, and once the scope is left, however it is left, the stream has
\* been released exactly once and is not open.
C5_ScopeExitReleasesOnce ==
  /\ pc \in {"opened", "entered"} => (fin_open /\ releases = 0)
  /\ pc = "exited" => (~fin_open /\ releases = 1)

C5_Witness ==
  /\ pc = "exited"
  /\ exit_exc \in {"ValueError", "TypeError"}
  /\ last.origin = "coercion"
  /\ pos < Len(file)

AdvanceMade == last.kind # "none"

\* C6 as stated: an advance made after the reader is Exhausted or Closed
\* fails with a use-after-close error.
C6_AdvanceAfterEndIsMisuse ==
  (AdvanceMade /\ (last.exhausted \/ last.pc = "exited"))
  => (last.kind = "ValueError" /\ last.origin = "stream")

\* C6 amended: an advance made after the scope was left fails with the
\* stream's use-after-close error, an advance made after exhaustion with the
\* stream still open ends the sequence again, and neither yields a record.
C6_AdvanceAfterEndYieldsNothing ==
  AdvanceMade =>
    /\ last.pc = "exited" =>
         (last.kind = "ValueError" /\ last.origin = "stream" /\ ~last.read)
    /\ (last.exhausted /\ last.pc # "exited") =>
         (last.kind = "StopIteration" /\ ~last.read)

C6_Witness ==
  /\ last.exhausted
  /\ last.pc = "entered"
  /\ last.kind = "StopIteration"
  /\ rows # <<>>

\* C7: an advance to a data row whose number of cells differs from the
\* number of fieldnames fails with a decode error and yields no record.
C7_WrongArityFails ==
  (last.read /\ last.ncells # Len(header.fieldnames))
  => last.kind \in {"ValueError", "TypeError"}

\* the first field of the row whose coercion function rejects its cell;
\* 0 when every cell is accepted
FirstRejected(type, cells) ==
  IF \E i \in 1..Len(type) : ~coerce(type[i].type, cells[i]).ok
  THEN CHOOSE i \in 1..Len(type) :
         /\ ~coerce(type[i].type, cells[i]).ok
         /\ \A j \in 1..(i - 1) : coerce(type[j].type, cells[j]).ok
  ELSE 0

\* C8: an advance to a row one of whose cells its coercion function rejects
\* raises that function's own error, adds no record, and leaves the records
\* decoded before it as they were.
C8_CoercionErrorPropagates ==
  [][ ( /\ pc # "unopened"
        /\ pos' > pos
        /\ last'.read
        /\ FirstRejected(dataclass_type, last'.cells) # 0 )
      => LET k == FirstRejected(dataclass_type, last'.cells)
         IN /\ last'.kind = coerce(dataclass_type[k].type, last'.cells[k]).err
            /\ last'.kind \in {"ValueError", "TypeError"}
            /\ rows' = rows ]_vars

C8_Witness ==
  /\ last.read
  /\ last.kind = "ValueError"
  /\ FirstRejected(dataclass_type, last.cells) = 2
  /\ Len(rows) = 1

\* C9 as stated: the preface is the lines before the fieldname row with only
\* their terminator removed, and the fieldnames are the delimiter-split
\* tokens of the fieldname row.
C9_HeaderIsRawLines ==
  (pc # "unopened" /\ FieldnameRow(file) # 0) =>
      /\ ~header.isNone
      /\ header.preface = SubSeq(file, 1, FieldnameRow(file) - 1)
      /\ header.fieldnames = Tokens(file[FieldnameRow(file)])
      /\ header.fieldnames # <<>>

\* C9 amended: the preface is the lines before the fieldname row, each with
\* its leading and trailing whitespace removed, the fieldnames are the
\* delimiter-split tokens of the fieldname row with its leading and trailing
\* whitespace removed, and fieldnames is never empty.
C9_HeaderIsStrippedLines ==
  (pc # "unopened" /\ FieldnameRow(file) # 0) =>
      /\ ~header.isNone
      /\ Len(header.preface) = FieldnameRow(file) - 1
      /\ \A i \in 1..Len(header.preface) : header.preface[i] = strip(file[i])
      /\ header.fieldnames = Tokens(strip(file[FieldnameRow(file)]))
      /\ header.fieldnames # <<>>

C9_Witness ==
  /\ ~header.isNone
  /\ FieldnameRow(file) = 3
  /\ \E i \in 1..2 : file[i] = <<"#", TAB>>
  /\ \E i \in 1..2 : file[i] = <<>>

\* C10: when open has failed, the stream it opened is not open.
C10_FailedOpenReleasesStream ==
  pc = "open_failed" => ~fin_open

====
